---- MODULE Spec2Model ----
(***************************************************************************)
(* Model of src/lib/multiwayblock.py: DropPath, Block and MultiWayBlock    *)
(* (construction with make_path, and forward with _forward_each_paths).   *)
(*                                                                         *)
(* Tensors are modelled by their shape and by the trace of operations      *)
(* that produced their value from the block's input (val): the learned     *)
(* blocks are uninterpreted, so two tensors are the same value exactly     *)
(* when their traces are equal.  The element-level behaviour of the pixel  *)
(* (un)shuffle is modelled on concrete tensors in SpecResample.            *)
(***************************************************************************)
EXTENDS Integers, Sequences, FiniteSets

VARIABLES
    pc,          \* position of the caller: new / make_path / factory / built / path / block / done / errors
    config,      \* the caller's configuration object (shared, mutable)
    self,        \* MultiWayBlock fields set by __init__
    paths,       \* paths[i]: width of the block registered as "path{i}"
    i,           \* loop index of make_path and of _forward_each_paths
    inp,         \* shape (B, N, D) of forward's argument
    x,           \* the local x of forward / _forward_each_paths
    shuf,        \* the shuf1 / shuf2 pair chosen for the current path
    features,    \* the list features
    attn_probs,  \* the local attn_probs
    out,         \* forward's returned tensor
    err,         \* the exception raised, "" if none
    dp,          \* one DropPath call (SpecDropPath)
    ten,         \* one resample round trip on a concrete tensor (SpecResample)
    base,        \* what the caller stored in config.hidden_size before constructing
    blk          \* one Block.forward call (SpecBlock)

vars == <<pc, config, self, paths, i, inp, x, shuf, features, attn_probs, out, err, dp, ten,
          base, blk>>

-----------------------------------------------------------------------------
(* Bounds of the model *)

MaxPath == 5
MaxN == 36
MaxBatch == 1
MaxFactor == 4
MaxSamples == 2

HiddenSizes == {2, 4, 6, 16}
Directions == {0, 1, 2, 3}
PixFactors == {2, 3, 4}
NumHeads == {1, 2}

Configs ==
    [hidden_size : HiddenSizes, num_path : 1..MaxPath, direction : Directions,
     pixshuf_factor : PixFactors, concat : BOOLEAN, num_heads : NumHeads]

-----------------------------------------------------------------------------
(* Arithmetic helpers *)

RECURSIVE Pow(_, _)
Pow(b, e) == IF e = 0 THEN 1 ELSE b * Pow(b, e - 1)

\* int(np.sqrt(N)): the floor of the square root
ISqrt(N) == CHOOSE r \in 0..N : r * r <= N /\ (r + 1) * (r + 1) > N

IsSquare(N) == \E r \in 0..N : r * r = N

\* (num_path // 2) + 1 if num_path is odd, else num_path // 2
Median(n) == IF n % 2 = 1 THEN (n \div 2) + 1 ELSE n \div 2

-----------------------------------------------------------------------------
(* MultiWayBlock.__init__ and make_path *)

NoSelf ==
    [dim |-> 0, num_path |-> 0, median |-> 0, total_dim |-> 0,
     pixshuf_factor |-> 0, direction |-> 0, concat |-> FALSE, fc |-> <<>>]

\* the two assertions at the head of __init__
ConfigAccepted_NoParity(cfg) == cfg.direction \in {0, 1, 2}

ConfigAccepted(cfg) ==
    /\ cfg.direction = 0 \/ cfg.direction = 1 \/ cfg.direction = 2
    /\ ~(cfg.direction = 0 /\ cfg.num_path % 2 = 0)

RejectReason(cfg) ==
    IF ~(cfg.direction = 0 \/ cfg.direction = 1 \/ cfg.direction = 2)
    THEN "AssertionError: direction must be 0 or 1 or 2."
    ELSE "AssertionError: if direction is 0, num_path must be odd number."

\* new_dim of make_path for path k; int(a / b) of positive integers is a \div b
NewDim(s, k) ==
    IF s.direction = 0
    THEN IF k < s.median THEN s.dim * Pow(s.pixshuf_factor, k * 2)
         ELSE IF k > s.median
              THEN s.dim \div Pow(s.pixshuf_factor, (k - s.median) * 2)
              ELSE s.dim
    ELSE IF s.direction = 1
         THEN IF k = 1 THEN s.dim
              ELSE s.dim * Pow(s.pixshuf_factor, (k - 1) * 2)
         ELSE IF k = 1 THEN s.dim
              ELSE s.dim \div Pow(s.pixshuf_factor, (k - 1) * 2)

\* block(config, False): builds a Block of width config.hidden_size, whose
\* MultiHeadSelfAttention asserts dim % num_heads == 0 and computes
\* head_dim ** -0.5 (0 ** -0.5 raises ZeroDivisionError)
BlockFactoryError(cfg) ==
    IF cfg.hidden_size % cfg.num_heads # 0
    THEN "AssertionError: dim should be divisible by num_heads"
    ELSE IF cfg.hidden_size \div cfg.num_heads = 0
         THEN "ZeroDivisionError"
         ELSE ""

Construct ==
    /\ pc = "new"
    /\ IF ConfigAccepted(config)
       THEN /\ self' = [dim |-> config.hidden_size,
                        num_path |-> config.num_path,
                        median |-> Median(config.num_path),
                        total_dim |-> config.hidden_size * config.num_path,
                        pixshuf_factor |-> config.pixshuf_factor,
                        direction |-> config.direction,
                        concat |-> config.concat,
                        fc |-> <<>>]
            /\ i' = 1
            /\ pc' = "make_path"
            /\ err' = err
       ELSE /\ pc' = "ctor_error"
            /\ err' = RejectReason(config)
            /\ UNCHANGED <<self, i>>
    /\ UNCHANGED <<config, paths, inp, x, shuf, features, attn_probs, out, dp, ten, base, blk>>

\* config.hidden_size = new_dim, left out
SetHiddenSize_NoWrite(cfg, w) == cfg

\* config.hidden_size = w
SetHiddenSize(cfg, w) == [cfg EXCEPT !.hidden_size = w]

\* make_path without its last line
RestoreHiddenSize_Missing(cfg, s) == cfg

\* config.hidden_size = self.dim
RestoreHiddenSize(cfg, s) == SetHiddenSize(cfg, s.dim)

\* one iteration of make_path up to the call of the block factory
MakePathWidth ==
    /\ pc = "make_path"
    /\ i <= self.num_path
    /\ config' = SetHiddenSize(config, NewDim(self, i))
    /\ pc' = "factory"
    /\ UNCHANGED <<self, paths, i, inp, x, shuf, features, attn_probs, out, err, dp, ten, base, blk>>

\* the factory returns and add_module registers path{i}
BlockFactoryReturn ==
    /\ pc = "factory"
    /\ BlockFactoryError(config) = ""
    /\ paths' = Append(paths, config.hidden_size)
    /\ i' = i + 1
    /\ pc' = "make_path"
    /\ UNCHANGED <<config, self, inp, x, shuf, features, attn_probs, out, err, dp, ten, base, blk>>

\* the factory raises: the exception leaves make_path and __init__
BlockFactoryRaise ==
    /\ pc = "factory"
    /\ BlockFactoryError(config) # ""
    /\ err' = BlockFactoryError(config)
    /\ pc' = "ctor_error"
    /\ UNCHANGED <<config, self, paths, i, inp, x, shuf, features, attn_probs, out, dp, ten, base, blk>>

\* the loop of make_path is over: restore config.hidden_size; __init__ then
\* builds norm and fc when concat
MakePathEnd ==
    /\ pc = "make_path"
    /\ i > self.num_path
    /\ config' = RestoreHiddenSize(config, self)
    /\ self' = [self EXCEPT !.fc = IF self.concat THEN <<self.total_dim, self.dim>> ELSE <<>>]
    /\ pc' = "built"
    /\ UNCHANGED <<paths, i, inp, x, shuf, features, attn_probs, out, err, dp, ten, base, blk>>

-----------------------------------------------------------------------------
(* Pixel shuffle / unshuffle on shapes (B, C, H, W) *)

NoShuf == [kind |-> "none", r |-> 1]
Unshuffle(r) == [kind |-> "unshuffle", r |-> r]
Shuffle(r) == [kind |-> "shuffle", r |-> r]

\* nn.PixelUnshuffle requires H and W divisible by r, nn.PixelShuffle requires
\* C divisible by r*r
ResampleOk(s, shape) ==
    IF s.kind = "unshuffle" THEN shape[3] % s.r = 0 /\ shape[4] % s.r = 0
    ELSE IF s.kind = "shuffle" THEN shape[2] % (s.r * s.r) = 0
    ELSE TRUE

ResampleShape(s, shape) ==
    IF s.kind = "unshuffle"
    THEN <<shape[1], shape[2] * s.r * s.r, shape[3] \div s.r, shape[4] \div s.r>>
    ELSE IF s.kind = "shuffle"
         THEN <<shape[1], shape[2] \div (s.r * s.r), shape[3] * s.r, shape[4] * s.r>>
         ELSE shape

Resample(s, t) ==
    IF s.kind = "none" THEN t
    ELSE [shape |-> ResampleShape(s, t.shape), val |-> Append(t.val, <<s.kind, s.r>>)]

\* shuf1 of path k (flag = False is the identity)
Shuf1(s, k) ==
    IF s.direction = 0
    THEN IF k < s.median THEN Unshuffle(s.pixshuf_factor * k)
         ELSE IF k > s.median THEN Shuffle(s.pixshuf_factor * (k - s.median))
              ELSE NoShuf
    ELSE IF s.direction = 1
         THEN IF k = 1 THEN NoShuf ELSE Unshuffle(s.pixshuf_factor * (k - 1))
         ELSE IF k = 1 THEN NoShuf ELSE Shuffle(s.pixshuf_factor * (k - 1))

\* a slip that reuses shuf1's kind for shuf2
Shuf2_SameKind(s, k) == Shuf1(s, k)

\* shuf2 of path k
Shuf2(s, k) ==
    IF s.direction = 0
    THEN IF k < s.median THEN Shuffle(s.pixshuf_factor * k)
         ELSE IF k > s.median THEN Unshuffle(s.pixshuf_factor * (k - s.median))
              ELSE NoShuf
    ELSE IF s.direction = 1
         THEN IF k = 1 THEN NoShuf ELSE Shuffle(s.pixshuf_factor * (k - 1))
         ELSE IF k = 1 THEN NoShuf ELSE Unshuffle(s.pixshuf_factor * (k - 1))

-----------------------------------------------------------------------------
(* MultiWayBlock.forward and _forward_each_paths *)

NoTensor == [shape |-> <<>>, val |-> <<>>]
NoAttn == [path |-> 0, shape |-> <<>>]
NoShufPair == [in |-> NoShuf, out |-> NoShuf]

\* x.permute(0,2,1).view(B,D,H,W) succeeds when the element counts agree
ViewOk_Always(numel, shape) == TRUE

ViewOk(numel, shape) == numel = shape[1] * shape[2] * shape[3] * shape[4]

\* lines 194-196
Forward(B, N) ==
    /\ pc = "built"
    /\ inp' = <<B, N, self.dim>>
    /\ LET H == ISqrt(N)
           shape == <<B, self.dim, H, H>>
       IN IF ViewOk(B * N * self.dim, shape)
          THEN /\ x' = [shape |-> shape, val |-> <<>>]
               /\ i' = 1
               /\ pc' = "path"
               /\ err' = err
          ELSE /\ pc' = "fwd_error"
               /\ err' = "RuntimeError: shape is invalid for input size"
               /\ UNCHANGED <<x, i>>
    /\ UNCHANGED <<config, self, paths, shuf, features, attn_probs, out, dp, ten, base, blk>>

\* a loop iteration up to the call of path{i}: choose shuf1 / shuf2, x = shuf1(x)
PathResampleIn ==
    /\ pc = "path"
    /\ i <= self.num_path
    /\ shuf' = [in |-> Shuf1(self, i), out |-> Shuf2(self, i)]
    /\ IF ResampleOk(Shuf1(self, i), x.shape)
       THEN /\ x' = Resample(Shuf1(self, i), x)
            /\ pc' = "block"
            /\ err' = err
       ELSE /\ pc' = "fwd_error"
            /\ err' = "RuntimeError: pixel_" \o Shuf1(self, i).kind
            /\ x' = x
    /\ UNCHANGED <<config, self, paths, i, inp, features, attn_probs, out, dp, ten, base, blk>>

\* Block.forward on tokens (B, H*W, D): norm1 = LayerNorm(dim) and the Linear
\* layers need D = dim; the output has the input's shape
BlockAccepts(width, shape) == shape[2] = width

BlockOut(k, t) == [shape |-> t.shape, val |-> Append(t.val, <<"block", k>>)]

BlockAttn(k, t, heads) ==
    [path |-> k, shape |-> <<t.shape[1], heads, t.shape[3] * t.shape[4], t.shape[3] * t.shape[4]>>]

\* x, attn_probs = path{i}(x): the assignment replaces the earlier probabilities
AttnAfterPath_KeepFirst(old, new) == IF old.path = 0 THEN new ELSE old

AttnAfterPath(old, new) == new

\* the rest of the iteration: run path{i}, x = shuf2(x), features.append(x)
PathBlock ==
    /\ pc = "block"
    /\ IF BlockAccepts(paths[i], x.shape)
       THEN /\ ResampleOk(shuf.out, x.shape)
            /\ x' = Resample(shuf.out, BlockOut(i, x))
            /\ features' = Append(features, x')
            /\ attn_probs' = AttnAfterPath(attn_probs, BlockAttn(i, x, config.num_heads))
            /\ i' = i + 1
            /\ pc' = "path"
            /\ err' = err
       ELSE /\ pc' = "fwd_error"
            /\ err' = "RuntimeError: layer_norm shape"
            /\ UNCHANGED <<x, features, attn_probs, i>>
    /\ UNCHANGED <<config, self, paths, inp, shuf, out, dp, ten, base, blk>>

\* values of a sum: how many times each term occurs
SumOf(fs) ==
    LET vals == {fs[k].val : k \in DOMAIN fs}
    IN [v \in vals |-> Cardinality({k \in DOMAIN fs : fs[k].val = v})]

\* lines 198-206 applied to the list fs
Fused(s, fs, shape) ==
    IF s.concat
    THEN [shape |-> shape, fusion |-> "fc(norm(cat))", parts |-> [k \in DOMAIN fs |-> fs[k].val],
          terms |-> <<>>]
    ELSE [shape |-> shape, fusion |-> "sum", parts |-> <<>>, terms |-> SumOf(fs)]

NoFused == [shape |-> <<>>, fusion |-> "", parts |-> <<>>, terms |-> <<>>]

\* the pair forward returns
NoOut == [x |-> NoFused, attn_probs |-> NoAttn]

\* the effect of one whole loop iteration on the local x
PathOut(s, k, t) == Resample(Shuf2(s, k), BlockOut(k, Resample(Shuf1(s, k), t)))

\* the loop body run over the path indices in the given order: the list of
\* (path index, feature) pairs it produces from the local x = t
RECURSIVE RunPaths(_, _, _)
RunPaths(s, order, t) ==
    IF order = <<>> THEN <<>>
    ELSE LET y == PathOut(s, Head(order), t)
         IN <<[k |-> Head(order), x |-> y]>> \o RunPaths(s, Tail(order), y)

\* the features of a run, each in the slot of its path
FeaturesBySlot(run) ==
    [k \in DOMAIN run |-> (CHOOSE e \in {run[j] : j \in DOMAIN run} : e.k = k).x]

Orders(n) == {o \in [1..n -> 1..n] : \A a, b \in 1..n : o[a] = o[b] => a = b}

\* the loop is over: fuse and return
Fuse ==
    /\ pc = "path"
    /\ i > self.num_path
    /\ out' = [x |-> Fused(self, features, inp), attn_probs |-> attn_probs]
    /\ pc' = "done"
    /\ UNCHANGED <<config, self, paths, i, inp, x, shuf, features, attn_probs, err, dp, ten, base, blk>>

-----------------------------------------------------------------------------
(* DropPath *)

DropProbs == {0, 50, 100}       \* drop_prob in percent
SampleValues == {-1, 0, 3}      \* a sample of the batch stands for all its elements

NoDP ==
    [pc |-> "off", via |-> "", x |-> <<>>, drop_prob |-> 0, training |-> FALSE,
     scale_by_keep |-> FALSE, result |-> <<>>, err |-> ""]

DropPathCalls ==
    {[pc |-> "call", via |-> "", x |-> xs, drop_prob |-> p, training |-> tr,
      scale_by_keep |-> sc, result |-> <<>>, err |-> ""] :
        xs \in UNION {[1..n -> SampleValues] : n \in 1..MaxSamples},
        p \in DropProbs, tr \in BOOLEAN, sc \in BOOLEAN}

\* number of parameters of def drop_path(x, drop_prob, training, scale_by_keep),
\* a plain function in the class body (no self, no staticmethod)
DropPathParams == 4

\* x.new_empty(shape).bernoulli_(keep_prob): one 0/1 draw per sample
Bernoulli(n, keep) ==
    IF keep = 0 THEN {[b \in 1..n |-> 0]}
    ELSE IF keep = 100 THEN {[b \in 1..n |-> 1]}
    ELSE [1..n -> {0, 1}]

\* the body of drop_path for the draw mask
drop_path(xs, drop_prob, training, scale_by_keep, mask) ==
    IF drop_prob = 0 \/ ~training
    THEN xs
    ELSE LET keep == 100 - drop_prob
         IN IF keep > 0 /\ scale_by_keep
            THEN [b \in DOMAIN xs |-> (xs[b] * mask[b] * 100) \div keep]
            ELSE [b \in DOMAIN xs |-> xs[b] * mask[b]]

\* DropPath.forward: self.drop_path(x, self.drop_prob, self.training,
\* self.scale_by_keep) is a bound call, so self is passed as well: five
\* positional arguments
ForwardCallArgs == <<"self", "x", "self.drop_prob", "self.training", "self.scale_by_keep">>

DropPathForward ==
    /\ dp.pc = "call"
    /\ IF Len(ForwardCallArgs) > DropPathParams
       THEN dp' = [dp EXCEPT !.pc = "raised", !.via = "forward",
                             !.err = "TypeError: drop_path() takes from 1 to 4 positional arguments but 5 were given"]
       ELSE \E mask \in Bernoulli(Len(dp.x), 100 - dp.drop_prob) :
                dp' = [dp EXCEPT !.pc = "returned", !.via = "forward",
                                 !.result = drop_path(dp.x, dp.drop_prob, dp.training,
                                                      dp.scale_by_keep, mask)]
    /\ UNCHANGED <<pc, config, self, paths, i, inp, x, shuf, features, attn_probs, out, err, ten, base, blk>>

\* DropPath.drop_path(x, drop_prob, training, scale_by_keep) called on the class
DropPathFunction ==
    /\ dp.pc = "call"
    /\ \E mask \in Bernoulli(Len(dp.x), 100 - dp.drop_prob) :
           dp' = [dp EXCEPT !.pc = "returned", !.via = "function",
                            !.result = drop_path(dp.x, dp.drop_prob, dp.training,
                                                 dp.scale_by_keep, mask)]
    /\ UNCHANGED <<pc, config, self, paths, i, inp, x, shuf, features, attn_probs, out, err, ten, base, blk>>

-----------------------------------------------------------------------------
(* Pixel shuffle / unshuffle on the elements of a contiguous tensor *)

Numel(shape) == shape[1] * shape[2] * shape[3] * shape[4]

\* position in data of element [b, c, h, w] (indices from 0)
Flat(shape, b, c, h, w) == ((b * shape[2] + c) * shape[3] + h) * shape[4] + w + 1

IdxB(shape, n) == (n - 1) \div (shape[2] * shape[3] * shape[4])
IdxC(shape, n) == ((n - 1) \div (shape[3] * shape[4])) % shape[2]
IdxH(shape, n) == ((n - 1) \div shape[4]) % shape[3]
IdxW(shape, n) == (n - 1) % shape[4]

\* nn.PixelUnshuffle(r): out[b, c*r*r + a*r + d, h, w] = in[b, c, h*r + a, w*r + d]
PixelUnshuffle(r, t) ==
    LET os == ResampleShape(Unshuffle(r), t.shape)
    IN [shape |-> os,
        data |-> [n \in 1..Numel(os) |->
            LET cc == IdxC(os, n)
                c == cc \div (r * r)
                a == (cc % (r * r)) \div r
                d == cc % r
            IN t.data[Flat(t.shape, IdxB(os, n), c, IdxH(os, n) * r + a, IdxW(os, n) * r + d)]]]

\* nn.PixelShuffle(r): out[b, c, h*r + a, w*r + d] = in[b, c*r*r + a*r + d, h, w]
PixelShuffle(r, t) ==
    LET os == ResampleShape(Shuffle(r), t.shape)
    IN [shape |-> os,
        data |-> [n \in 1..Numel(os) |->
            LET hh == IdxH(os, n)
                ww == IdxW(os, n)
            IN t.data[Flat(t.shape, IdxB(os, n),
                           IdxC(os, n) * r * r + (hh % r) * r + (ww % r),
                           hh \div r, ww \div r)]]]

ApplyShuf(s, t) ==
    IF s.kind = "unshuffle" THEN PixelUnshuffle(s.r, t)
    ELSE IF s.kind = "shuffle" THEN PixelShuffle(s.r, t)
    ELSE t

\* the tensor whose elements are all different
Labelled(shape) == [shape |-> shape, data |-> [n \in 1..Numel(shape) |-> n]]

ShufFields ==
    {[dim |-> 0, num_path |-> n, median |-> Median(n), total_dim |-> 0,
      pixshuf_factor |-> f, direction |-> d, concat |-> FALSE, fc |-> <<>>] :
        n \in 1..MaxPath, f \in PixFactors, d \in {0, 1, 2}}

\* smallest shapes a resample accepts, and their doubles
ShapesFor(s) ==
    IF s.kind = "unshuffle"
    THEN {<<1, c, s.r * a, s.r * b>> : c \in 1..2, a \in 1..2, b \in 1..2}
    ELSE {<<1, s.r * s.r * c, a, b>> : c \in 1..2, a \in 1..2, b \in 1..2}

NoTen == [pc |-> "off", s |-> NoSelf, k |-> 0, t0 |-> Labelled(<<0, 0, 0, 0>>),
          t |-> Labelled(<<0, 0, 0, 0>>)]

ResampleCases ==
    UNION {UNION {{[pc |-> "in", s |-> s, k |-> k, t0 |-> Labelled(sh), t |-> Labelled(sh)] :
                      sh \in ShapesFor(Shuf1(s, k))} :
                  k \in {j \in 1..s.num_path :
                            Shuf1(s, j).kind # "none" /\ Shuf1(s, j).r <= MaxFactor}} :
           s \in {q \in ShufFields : ConfigAccepted(q)}}

\* x = shuf1(x) if flag else x
ResampleIn ==
    /\ ten.pc = "in"
    /\ ten' = IF ResampleOk(Shuf1(ten.s, ten.k), ten.t.shape)
              THEN [ten EXCEPT !.t = ApplyShuf(Shuf1(ten.s, ten.k), ten.t), !.pc = "out"]
              ELSE [ten EXCEPT !.pc = "error"]
    /\ UNCHANGED <<pc, config, self, paths, i, inp, x, shuf, features, attn_probs, out, err, dp, base, blk>>

\* x = shuf2(x) if flag else x
ResampleOut ==
    /\ ten.pc = "out"
    /\ ten' = IF ResampleOk(Shuf2(ten.s, ten.k), ten.t.shape)
              THEN [ten EXCEPT !.t = ApplyShuf(Shuf2(ten.s, ten.k), ten.t), !.pc = "back"]
              ELSE [ten EXCEPT !.pc = "error"]
    /\ UNCHANGED <<pc, config, self, paths, i, inp, x, shuf, features, attn_probs, out, err, dp, base, blk>>

-----------------------------------------------------------------------------
(* Block *)

NoBlk ==
    [pc |-> "off", drop_path |-> 0, training |-> FALSE, drop_path1 |-> "", drop_path2 |-> "",
     x |-> <<>>, draw1 |-> <<>>, draw2 |-> <<>>, out |-> <<>>]

\* DropPath(drop_path) if drop_path > 0. else nn.Identity()
DropPathModule(p) == IF p > 0 THEN "DropPath" ELSE "Identity"

\* a Block built with the rate p, about to be called on a batch xs; draw1 and
\* draw2 are the keep (1) / drop (0) outcomes per sample that the bernoulli
\* draws of drop_path1 and drop_path2 give in this call
BlockCalls ==
    {[pc |-> "call", drop_path |-> p, training |-> tr,
      drop_path1 |-> DropPathModule(p), drop_path2 |-> DropPathModule(p),
      x |-> xs, draw1 |-> d1, draw2 |-> d2, out |-> <<>>] :
        <<p, xs, d1, d2>> \in
            UNION {UNION {{<<q, ys, e1, e2>> : e1 \in Bernoulli(Len(ys), 100 - q),
                                               e2 \in Bernoulli(Len(ys), 100 - q)} :
                          ys \in UNION {[1..n -> SampleValues] : n \in 1..MaxSamples}} :
                   q \in DropProbs},
        tr \in BOOLEAN}

\* Block.forward for sample b: skip = x; x = skip + attn(norm1(x));
\* x = x + mlp(norm2(x)).  The terms of the sum that make up the result.
BlockForwardTerms(bl, b) == <<"x", "attn(norm1(x))", "mlp(norm2(x1))">>

BlockForward ==
    /\ blk.pc = "call"
    /\ blk' = [blk EXCEPT !.pc = "returned",
                          !.out = [b \in DOMAIN blk.x |-> BlockForwardTerms(blk, b)]]
    /\ UNCHANGED <<pc, config, self, paths, i, inp, x, shuf, features, attn_probs, out, err,
                   dp, ten, base>>

-----------------------------------------------------------------------------
Init ==
    /\ pc = "new"
    /\ config \in Configs
    /\ self = NoSelf
    /\ paths = <<>>
    /\ i = 0
    /\ inp = <<>>
    /\ x = NoTensor
    /\ shuf = NoShufPair
    /\ features = <<>>
    /\ attn_probs = NoAttn
    /\ out = NoOut
    /\ err = ""
    /\ dp = NoDP
    /\ ten = NoTen
    /\ base = config.hidden_size
    /\ blk = NoBlk

Next ==
    \/ Construct
    \/ MakePathWidth
    \/ BlockFactoryReturn
    \/ BlockFactoryRaise
    \/ MakePathEnd
    \/ \E B \in 1..MaxBatch, N \in 1..MaxN : Forward(B, N)
    \/ PathResampleIn
    \/ PathBlock
    \/ Fuse

Spec == Init /\ [][Next]_vars

Idle ==
    /\ pc = "off"
    /\ config = [hidden_size |-> 0, num_path |-> 0, direction |-> 0,
                 pixshuf_factor |-> 0, concat |-> FALSE, num_heads |-> 0]
    /\ self = NoSelf
    /\ paths = <<>>
    /\ i = 0
    /\ inp = <<>>
    /\ x = NoTensor
    /\ shuf = NoShufPair
    /\ features = <<>>
    /\ attn_probs = NoAttn
    /\ out = NoOut
    /\ err = ""
    /\ base = 0

InitDropPath == Idle /\ dp \in DropPathCalls /\ ten = NoTen /\ blk = NoBlk

NextDropPath == DropPathForward \/ DropPathFunction

SpecDropPath == InitDropPath /\ [][NextDropPath]_vars

InitResample == Idle /\ dp = NoDP /\ ten \in ResampleCases /\ blk = NoBlk

NextResample == ResampleIn \/ ResampleOut

SpecResample == InitResample /\ [][NextResample]_vars

InitBlock == Idle /\ dp = NoDP /\ ten = NoTen /\ blk \in BlockCalls

NextBlock == BlockForward

SpecBlock == InitBlock /\ [][NextBlock]_vars

-----------------------------------------------------------------------------
(* Properties of MultiWayBlock *)

InForward == pc \in {"path", "block", "done", "fwd_error"}

SpatialInput == [shape |-> <<inp[1], inp[3], ISqrt(inp[2]), ISqrt(inp[2])>>, val |-> <<>>]

\* the actions and RunPaths agree on the code's own order 1..num_path
RunMatchesLoop ==
    pc = "done" =>
        features = FeaturesBySlot(RunPaths(self, [k \in 1..self.num_path |-> k], SpatialInput))

\* C1: whenever a path is about to apply its resample-in, the tensor it is fed
\* is the spatial reshape (B, D, H, W) of the block's own input, untouched by
\* any other path.
C1_PathReadsBlockInput ==
    (pc = "path" /\ i <= self.num_path) => x = SpatialInput

\* C2: on a constructed block, an input with N a perfect square and a spatial
\* size divisible by every resample factor used never makes forward fail, and
\* the returned tensor has the input's shape (B, N, D).
C2_Precondition ==
    /\ IsSquare(inp[2])
    /\ \A k \in 1..self.num_path : ISqrt(inp[2]) % Shuf1(self, k).r = 0

C2_ForwardKeepsShape ==
    (InForward /\ C2_Precondition) =>
        /\ pc # "fwd_error"
        /\ pc = "done" => out.x.shape = inp

RejectMessages ==
    {"AssertionError: direction must be 0 or 1 or 2.",
     "AssertionError: if direction is 0, num_path must be odd number."}

BadDirectionOrParity ==
    \/ config.direction \notin {0, 1, 2}
    \/ config.direction = 0 /\ config.num_path % 2 = 0

\* C3: construction is rejected with an error, with no path built, exactly when
\* direction is outside {0,1,2} or direction is 0 and num_path is even; every
\* other direction / num_path passes the checks and enters make_path.
C3_ConstructionGuards ==
    pc # "new" =>
        /\ BadDirectionOrParity =>
              pc = "ctor_error" /\ err \in RejectMessages /\ paths = <<>>
        /\ ~BadDirectionOrParity =>
              err \notin RejectMessages /\ self.num_path = config.num_path

C3_Witness ==
    /\ pc = "ctor_error"
    /\ config.direction = 0
    /\ config.num_path % 2 = 0
    /\ err \in RejectMessages
    /\ paths = <<>>

\* the divisor of a channel-shrink path, 1 for the other paths
ShrinkRatio(s, k) ==
    IF s.direction = 0 /\ k > s.median THEN Pow(s.pixshuf_factor, (k - s.median) * 2)
    ELSE IF s.direction = 2 /\ k > 1 THEN Pow(s.pixshuf_factor, (k - 1) * 2)
    ELSE 1

WorkingDimIsPositiveInteger(s, k) ==
    s.dim % ShrinkRatio(s, k) = 0 /\ s.dim \div ShrinkRatio(s, k) >= 1

\* C4: no path is ever built whose working dimension is not a positive integer
\* (hidden_size not exactly divisible by the path's channel-shrink ratio, or a
\* quotient below 1), and a construction with such a path does not succeed.
C4_NoTruncatedWidth ==
    /\ \A k \in 1..Len(paths) : WorkingDimIsPositiveInteger(self, k)
    /\ pc = "built" => \A k \in 1..self.num_path : WorkingDimIsPositiveInteger(self, k)

\* C5: forward on an input whose token count N is not a perfect square ends in
\* a shape error before any path's block has run; it never goes on with
\* H = W = floor(sqrt(N)).
C5_NonSquareRejected ==
    (InForward /\ ~IsSquare(inp[2])) =>
        /\ pc = "fwd_error"
        /\ err = "RuntimeError: shape is invalid for input size"
        /\ features = <<>>
        /\ attn_probs = NoAttn

C5_Witness ==
    /\ pc = "fwd_error"
    /\ inp[2] = 10
    /\ err = "RuntimeError: shape is invalid for input size"

\* C7: the attention probabilities forward returns are those of the last path
\* processed, path num_path; during the loop the local holds those of the path
\* just run.
C7_LastPathAttention ==
    /\ (pc = "path" /\ i > 1) => attn_probs.path = i - 1
    /\ pc = "done" => out.attn_probs.path = self.num_path

C7_Witness ==
    /\ pc = "done"
    /\ self.num_path >= 3
    /\ out.attn_probs.path = self.num_path

\* C9: the fused output is the same for every order in which the num_path
\* paths are evaluated, the features being fused after all paths have run.
C9_OrderIndependentFusion ==
    pc = "done" =>
        \A o \in Orders(self.num_path) :
            Fused(self, FeaturesBySlot(RunPaths(self, o, SpatialInput)), inp) = out.x

\* C10: the width path i's block was constructed with in make_path equals the
\* channel count of the tensor path i's resample-in hands to it in forward.
C10_WidthMatchesForward ==
    pc = "block" => x.shape[2] = paths[i]

-----------------------------------------------------------------------------
(* Properties of the resample pair and of DropPath *)

Inverse(s) ==
    IF s.kind = "unshuffle" THEN Shuffle(s.r)
    ELSE IF s.kind = "shuffle" THEN Unshuffle(s.r)
    ELSE s

\* C6: on every path whose resample is not the identity, resample-out is the
\* inverse kind of resample-in with the same factor, and applying resample-in
\* and then resample-out gives back the tensor, shape and every element, in
\* both orders (unshuffle then shuffle, shuffle then unshuffle).
C6_ResampleRoundTrip ==
    /\ ten.pc # "error"
    /\ ten.pc \in {"in", "out", "back"} => Shuf2(ten.s, ten.k) = Inverse(Shuf1(ten.s, ten.k))
    /\ ten.pc = "out" => ten.t.shape = ResampleShape(Shuf1(ten.s, ten.k), ten.t0.shape)
    /\ ten.pc = "back" => ten.t = ten.t0

C6_Witness ==
    /\ ten.pc = "back"
    /\ Shuf1(ten.s, ten.k) = Shuffle(4)
    /\ ten.t0.shape = <<1, 32, 2, 2>>
    /\ ten.t = ten.t0

\* C8: DropPath.forward returns its input unchanged, and does not raise,
\* whenever drop_prob is 0 or the module is not in training mode.
C8_ForwardIdentityWhenInactive ==
    (dp.via = "forward" /\ (dp.drop_prob = 0 \/ ~dp.training)) =>
        dp.pc = "returned" /\ dp.result = dp.x

-----------------------------------------------------------------------------
(* Properties of the path layout *)

\* the ratio new_dim / dim of a channel-expand path, 1 for the other paths
ExpandRatio(s, k) ==
    IF s.direction = 0 /\ k < s.median THEN Pow(s.pixshuf_factor, k * 2)
    ELSE IF s.direction = 1 /\ k > 1 THEN Pow(s.pixshuf_factor, (k - 1) * 2)
    ELSE 1

\* C11: with direction 0 the median path is left at the original resolution
\* and the paths are mirrored around it: path median-k expands the channels by
\* the factor (and the width ratio) by which path median+k shrinks them.
C11_MirroredAroundMedian ==
    (pc = "built" /\ self.direction = 0) =>
        /\ self.median = (self.num_path \div 2) + 1
        /\ Shuf1(self, self.median) = NoShuf
        /\ paths[self.median] = self.dim
        /\ \A k \in 1..(self.median - 1) :
              /\ Shuf1(self, self.median - k).kind = "unshuffle"
              /\ Shuf1(self, self.median + k).kind = "shuffle"
              /\ Shuf1(self, self.median - k).r = Shuf1(self, self.median + k).r
              /\ ExpandRatio(self, self.median - k) = ShrinkRatio(self, self.median + k)

-----------------------------------------------------------------------------
(* Properties of the caller's configuration object *)

Constructed == pc \in {"built", "path", "block", "done", "fwd_error"}

FactoryRaised == pc = "ctor_error" /\ err \notin RejectMessages

C15_HiddenSizeRestored ==
    /\ Constructed => config.hidden_size = base /\ self.dim = base
    /\ pc = "factory" =>
          config.hidden_size =
              IF ExpandRatio(self, i) > 1 THEN base * ExpandRatio(self, i)
              ELSE base \div ShrinkRatio(self, i)

C15_Witness ==
    /\ pc = "built"
    /\ self.num_path >= 3
    /\ \E k \in 1..Len(paths) : paths[k] # base
    /\ config.hidden_size = base

-----------------------------------------------------------------------------
(* Properties of Block *)

Terms(seq) == {seq[j] : j \in DOMAIN seq}

\* C13: Block.forward gates both residual branches with the stochastic depth
\* modules: in training mode with drop_path > 0 the attention branch of a
\* sample is left out when drop_path1 draws 'drop' for it, the feed-forward
\* branch when drop_path2 does, so a sample with both draws 'drop' comes out
\* equal to the input x.
C13_BranchesGated ==
    (blk.pc = "returned" /\ blk.training /\ blk.drop_path > 0) =>
        \A b \in DOMAIN blk.x :
            /\ blk.draw1[b] = 0 => "attn(norm1(x))" \notin Terms(blk.out[b])
            /\ blk.draw2[b] = 0 => "mlp(norm2(x1))" \notin Terms(blk.out[b])
            /\ (blk.draw1[b] = 0 /\ blk.draw2[b] = 0) => blk.out[b] = <<"x">>

-----------------------------------------------------------------------------
(* Properties of the shape errors of forward *)

\* H (= W) of the input is a multiple of path k's resample factor
SpatialDivisible(k) == ISqrt(inp[2]) % Shuf1(self, k).r = 0

\* C14: on a square input forward fails with a shape error whenever H, W are
\* not evenly divisible by the resample factor of some path, be it a
\* channel-expand / spatial-shrink or a channel-shrink / spatial-expand path,
\* and it never fails when they are divisible by every path's factor.
C14_DivisibilityDecidesFailure ==
    (InForward /\ IsSquare(inp[2])) =>
        /\ pc = "done" => \A k \in 1..self.num_path : SpatialDivisible(k)
        /\ pc = "fwd_error" => \E k \in 1..self.num_path : ~SpatialDivisible(k)

\* the part of C14 about the spatial-expand paths alone
C14_ExpandPathsNeedDivisibleInput ==
    (pc = "done" /\ self.direction = 2) => \A k \in 1..self.num_path : SpatialDivisible(k)

====
